---- MODULE Spec2Model ----
(***************************************************************************)
(* QuantEngine.get_market_intelligence (src/main.py 15-55) and the page    *)
(* that calls it: the session state (67-69), the welcome screen (115-138), *)
(* the sidebar (142-161) and the terminal (163-221).                       *)
(*                                                                         *)
(* Strings the engine transforms (the symbol, the ticker) are sequences    *)
(* of one-character strings, so that strip(), upper(), the "." test and    *)
(* the ".NS" suffix are computed.  Numbers are extended rationals <<n,d>>: *)
(* d > 0 is the number n/d in lowest terms, <<0,0>> is NaN, <<1,0>> is     *)
(* +inf and <<-1,0>> is -inf, with the IEEE-754 rules for the operations   *)
(* the code performs (x/0, 0/0, 1+inf, 100/inf, comparisons with NaN).     *)
(* Rounding of binary64 is not modelled there, except for EMA_20, which is *)
(* carried at a fixed precision of 1/EmaScale.                             *)
(*                                                                         *)
(* SpecRsi carries lines 36-39 in binary64 itself, bit for bit, the        *)
(* rolling means as pandas accumulates them, on series whose closes span   *)
(* up to BigExp binary orders of magnitude: whether line 39 returns 100    *)
(* depends on how its quotient is rounded.                                 *)
(*                                                                         *)
(* SpecVwap carries lines 42-43 in binary64 itself, bit for bit, on short  *)
(* series of prices quoted in cents: what these two lines return depends   *)
(* on how each product, sum and quotient is rounded.  The terminal page    *)
(* prints and classifies doubles too (lines 181-185); where the exact      *)
(* value of the last row sits on a boundary the page tells apart, the      *)
(* double is computed as lines 36-43 compute it.                           *)
(***************************************************************************)
EXTENDS Integers, Sequences, FiniteSets, TLC

VARIABLES symbol, interval, history, cache, listed, feed, shape, pc, ticker,
          period, df, delta, gain, loss, tp, raised, page_df, full_name,
          summary, ticks

vars == <<symbol, interval, history, cache, listed, feed, shape, pc, ticker,
          period, df, delta, gain, loss, tp, raised, page_df, full_name,
          summary, ticks>>


(***************************************************************************)
(* Bounds of the model.                                                    *)
(***************************************************************************)
MaxSymLen == 2
MaxTicks == 1
ShortLen == 3
LongLen == 253
BasePrice == 10
Step == 2
BaseVolume == 3
EmaScale == 100000
MaxBars == 4
BigExp == 60
MaxRsiBars == 16

(***************************************************************************)
(* Program constants.                                                      *)
(***************************************************************************)
RSI_WINDOW == 14
EMA_SPAN == 20
SMA_WINDOW == 50
W52_WINDOW == 252
RSI_OVERBOUGHT == 70
RSI_OVERSOLD == 30

(***************************************************************************)
(* Extended rationals.                                                     *)
(***************************************************************************)
Abs(x) == IF x < 0 THEN -x ELSE x

RECURSIVE Gcd(_, _)
Gcd(a, b) == IF b = 0 THEN a ELSE Gcd(b, a % b)

NaN == <<0, 0>>
Int2Num(x) == <<x, 1>>

Norm(n, d) ==
    IF d = 0 THEN <<(IF n > 0 THEN 1 ELSE IF n < 0 THEN -1 ELSE 0), 0>>
    ELSE LET g == Gcd(Abs(n), Abs(d))
             s == IF d < 0 THEN -1 ELSE 1
         IN  <<s * (n \div g), s * (d \div g)>>

IsNaN(a) == a[2] = 0 /\ a[1] = 0
IsInf(a) == a[2] = 0 /\ a[1] # 0
IsFinite(a) == a[2] # 0
notna(a) == ~IsNaN(a)

Neg(a) == <<-a[1], a[2]>>

Add(a, b) ==
    IF IsNaN(a) \/ IsNaN(b) THEN NaN
    ELSE IF IsInf(a) /\ IsInf(b) THEN (IF a[1] = b[1] THEN a ELSE NaN)
    ELSE IF IsInf(a) THEN a
    ELSE IF IsInf(b) THEN b
    ELSE Norm(a[1] * b[2] + b[1] * a[2], a[2] * b[2])

Sub(a, b) == Add(a, Neg(b))

Sign(x) == IF x > 0 THEN 1 ELSE IF x < 0 THEN -1 ELSE 0

Mul(a, b) ==
    IF IsNaN(a) \/ IsNaN(b) THEN NaN
    ELSE IF IsInf(a) \/ IsInf(b) THEN Norm(Sign(a[1]) * Sign(b[1]), 0)
    ELSE Norm(a[1] * b[1], a[2] * b[2])

DivZeroGuarded(a, b) ==
    IF IsNaN(a) \/ IsNaN(b) THEN NaN
    ELSE IF IsInf(a) /\ IsInf(b) THEN NaN
    ELSE IF IsInf(a) THEN <<Sign(a[1]) * (IF b[1] < 0 THEN -1 ELSE 1), 0>>
    ELSE IF IsInf(b) THEN <<0, 1>>
    ELSE IF b[1] = 0 THEN <<0, 1>>
    ELSE Norm(a[1] * b[2], a[2] * b[1])

\* float division: x/0 is +-inf, 0/0 and inf/inf are NaN, x/inf is 0
Div(a, b) ==
    IF IsNaN(a) \/ IsNaN(b) THEN NaN
    ELSE IF IsInf(a) /\ IsInf(b) THEN NaN
    ELSE IF IsInf(a) THEN Norm(Sign(a[1]) * (IF b[1] < 0 THEN -1 ELSE 1), 0)
    ELSE IF IsInf(b) THEN <<0, 1>>
    ELSE IF b[1] = 0 THEN Norm(Sign(a[1]), 0)
    ELSE Norm(a[1] * b[2], a[2] * b[1])

\* comparisons: every comparison with NaN is false
Lt(a, b) ==
    IF IsNaN(a) \/ IsNaN(b) THEN FALSE
    ELSE IF IsInf(a) /\ IsInf(b) THEN a[1] < b[1]
    ELSE IF IsInf(a) THEN a[1] < 0
    ELSE IF IsInf(b) THEN b[1] > 0
    ELSE a[1] * b[2] < b[1] * a[2]

Gt(a, b) == Lt(b, a)

(***************************************************************************)
(* binary64 arithmetic, for lines 36-43.  A natural number is the sequence *)
(* of its digits in base LIMB, least significant first, without leading    *)
(* zeros.  A double is [cls, m, e]: cls "num" is the value m * 2^e with m  *)
(* of exactly MANT_BITS bits; "zero", "inf" and "nan" carry no digits.     *)
(* These are the magnitudes; lines 36-39 subtract, and carry a sign with   *)
(* them (below).  Exponent overflow and subnormals are out of range for    *)
(* prices and volumes.                                                     *)
(***************************************************************************)
MANT_BITS == 53
LIMB_BITS == 15
LIMB == 32768

\* a left fold of F over rows lo..hi; the left half is evaluated before the
\* right half starts, which keeps the evaluation shallow
RECURSIVE Fold(_, _, _, _)
Fold(F(_, _), acc, lo, hi) ==
    IF lo > hi THEN acc
    ELSE IF lo = hi THEN F(acc, lo)
    ELSE LET mid == (lo + hi) \div 2
             left == Fold(F, acc, lo, mid)
         IN  IF left = left THEN Fold(F, left, mid + 1, hi) ELSE acc

RECURSIVE Pow2(_)
Pow2(k) == IF k = 0 THEN 1 ELSE 2 * Pow2(k - 1)

RECURSIVE BitLenInt(_)
BitLenInt(n) == IF n = 0 THEN 0 ELSE 1 + BitLenInt(n \div 2)

RECURSIVE Big(_)
Big(n) == IF n = 0 THEN <<>> ELSE <<n % LIMB>> \o Big(n \div LIMB)

LimbAt(a, i) == IF i <= Len(a) THEN a[i] ELSE 0

RECURSIVE Trim(_)
Trim(a) ==
    IF a = <<>> \/ a[Len(a)] # 0 THEN a ELSE Trim(SubSeq(a, 1, Len(a) - 1))

BitLen(a) ==
    IF a = <<>> THEN 0 ELSE LIMB_BITS * (Len(a) - 1) + BitLenInt(a[Len(a)])

RECURSIVE AddFrom(_, _, _, _)
AddFrom(a, b, i, carry) ==
    IF i > Len(a) /\ i > Len(b)
    THEN IF carry = 0 THEN <<>> ELSE <<carry>>
    ELSE LET t == LimbAt(a, i) + LimbAt(b, i) + carry
         IN  <<t % LIMB>> \o AddFrom(a, b, i + 1, t \div LIMB)

BigAdd(a, b) == AddFrom(a, b, 1, 0)

RECURSIVE SubFrom(_, _, _, _)
SubFrom(a, b, i, borrow) ==
    IF i > Len(a) THEN <<>>
    ELSE LET t == LimbAt(a, i) - LimbAt(b, i) - borrow
         IN  <<t % LIMB>> \o SubFrom(a, b, i + 1, IF t < 0 THEN 1 ELSE 0)

\* a - b for a >= b
BigSub(a, b) == Trim(SubFrom(a, b, 1, 0))

\* a <= b
BigLe(a, b) ==
    \/ Len(a) < Len(b)
    \/ /\ Len(a) = Len(b)
       /\ \A i \in 1..Len(a) :
              a[i] > b[i] => \E j \in (i + 1)..Len(a) : a[j] < b[j]

RECURSIVE MulFrom(_, _, _, _)
MulFrom(a, k, i, carry) ==
    IF i > Len(a) THEN Big(carry)
    ELSE LET t == a[i] * k + carry
         IN  <<t % LIMB>> \o MulFrom(a, k, i + 1, t \div LIMB)

\* a * k for 0 <= k <= LIMB
BigMulSmall(a, k) == IF k = 0 THEN <<>> ELSE MulFrom(a, k, 1, 0)

\* quotient and remainder of the digits i..Len(a) of a by d, 0 < d <= LIMB
RECURSIVE DivFrom(_, _, _)
DivFrom(a, d, i) ==
    IF i > Len(a) THEN [q |-> <<>>, r |-> 0]
    ELSE LET hi == DivFrom(a, d, i + 1)
             t == LIMB * hi.r + a[i]
         IN  [q |-> <<t \div d>> \o hi.q, r |-> t % d]

BigDivSmall(a, d) ==
    LET qr == DivFrom(a, d, 1) IN [q |-> Trim(qr.q), r |-> qr.r]

\* a * 2^k
Shl(a, k) ==
    IF a = <<>> THEN a
    ELSE [i \in 1..(k \div LIMB_BITS) |-> 0] \o BigMulSmall(a, Pow2(k % LIMB_BITS))

\* a \div 2^k
Shr(a, k) ==
    BigDivSmall(SubSeq(a, k \div LIMB_BITS + 1, Len(a)), Pow2(k % LIMB_BITS)).q

Zero64 == [cls |-> "zero", m |-> <<>>, e |-> 0]
Inf64 == [cls |-> "inf", m |-> <<>>, e |-> 0]
NaN64 == [cls |-> "nan", m |-> <<>>, e |-> 0]
Num64(m, e) == [cls |-> "num", m |-> m, e |-> e]

\* the double nearest to big * 2^e, ties to even
Round64(big, e) ==
    LET k == BitLen(big) - MANT_BITS
    IN  IF big = <<>> THEN Zero64
        ELSE IF k <= 0 THEN Num64(Shl(big, -k), e + k)
        ELSE LET q == Shr(big, k)
                 rest == BigSub(big, Shl(q, k))
                 half == Shl(<<1>>, k - 1)
                 up == IF rest = half THEN q[1] % 2 = 1 ELSE BigLe(half, rest)
                 q1 == IF up THEN BigAdd(q, <<1>>) ELSE q
             IN  IF BitLen(q1) > MANT_BITS
                 THEN Num64(Shr(q1, 1), e + k + 1)
                 ELSE Num64(q1, e + k)

\* float(n) for an int64 n >= 0
FromInt64(n) == Round64(Big(n), 0)

\* x + y
Add64(x, y) ==
    IF x.cls = "nan" \/ y.cls = "nan" THEN NaN64
    ELSE IF x.cls = "inf" \/ y.cls = "inf" THEN Inf64
    ELSE IF x.cls = "zero" THEN y
    ELSE IF y.cls = "zero" THEN x
    ELSE LET lo == IF x.e < y.e THEN x.e ELSE y.e
         IN  Round64(BigAdd(Shl(x.m, x.e - lo), Shl(y.m, y.e - lo)), lo)

\* x * float(k) for an int64 k, 0 <= k <= LIMB
MulInt64(x, k) ==
    IF x.cls = "nan" THEN NaN64
    ELSE IF x.cls = "inf" THEN (IF k = 0 THEN NaN64 ELSE Inf64)
    ELSE IF x.cls = "zero" \/ k = 0 THEN Zero64
    ELSE Round64(BigMulSmall(x.m, k), x.e)

\* x / float(d) for an int64 d, 0 <= d <= LIMB: the quotient is carried to
\* more than MANT_BITS + 2 bits, with a last bit that records a remainder
DivInt64(x, d) ==
    IF x.cls = "nan" THEN NaN64
    ELSE IF d = 0 THEN (IF x.cls = "zero" THEN NaN64 ELSE Inf64)
    ELSE IF x.cls \in {"zero", "inf"} THEN x
    ELSE LET s == BitLenInt(d) + 3
             qr == BigDivSmall(Shl(x.m, s), d)
         IN  Round64(BigAdd(Shl(qr.q, 1), IF qr.r = 0 THEN <<>> ELSE <<1>>),
                     x.e - s - 1)

\* the double a price quoted in whole cents is read as
FromCents(c) == DivInt64(FromInt64(c), 100)

\* x <= y
Le64(x, y) ==
    IF x.cls = "nan" \/ y.cls = "nan" THEN FALSE
    ELSE IF y.cls = "inf" \/ x.cls = "zero" THEN TRUE
    ELSE IF x.cls = "inf" \/ y.cls = "zero" THEN FALSE
    ELSE LET lo == IF x.e < y.e THEN x.e ELSE y.e
         IN  BigLe(Shl(x.m, x.e - lo), Shl(y.m, y.e - lo))

\* x < y
Lt64(x, y) == x.cls # "nan" /\ y.cls # "nan" /\ ~Le64(y, x)

\* x - y for x >= y
Sub64(x, y) ==
    IF x.cls = "nan" \/ y.cls = "nan" THEN NaN64
    ELSE IF x.cls = "inf" THEN (IF y.cls = "inf" THEN NaN64 ELSE Inf64)
    ELSE IF y.cls = "zero" THEN x
    ELSE LET lo == IF x.e < y.e THEN x.e ELSE y.e
         IN  Round64(BigSub(Shl(x.m, x.e - lo), Shl(y.m, y.e - lo)), lo)

\* x / y: the quotient of the two MANT_BITS-bit integers is taken bit by bit,
\* to MANT_BITS + 3 bits, with a last bit that records a remainder
Div64(x, y) ==
    IF x.cls = "nan" \/ y.cls = "nan" THEN NaN64
    ELSE IF y.cls = "zero" THEN (IF x.cls = "zero" THEN NaN64 ELSE Inf64)
    ELSE IF y.cls = "inf" THEN (IF x.cls = "inf" THEN NaN64 ELSE Zero64)
    ELSE IF x.cls \in {"zero", "inf"} THEN x
    ELSE LET bit(acc, i) ==
                 LET ge == BigLe(y.m, acc.r)
                 IN  [q |-> BigAdd(Shl(acc.q, 1), IF ge THEN <<1>> ELSE <<>>),
                      r |-> Shl(IF ge THEN BigSub(acc.r, y.m) ELSE acc.r, 1)]
             qr == Fold(bit, [q |-> <<>>, r |-> x.m], 1, MANT_BITS + 3)
         IN  Round64(BigAdd(Shl(qr.q, 1), IF qr.r = <<>> THEN <<>> ELSE <<1>>),
                     x.e - y.e - MANT_BITS - 3)

(***************************************************************************)
(* Signed doubles, for lines 36-39: [neg, abs] is the magnitude abs with   *)
(* the sign bit neg, so that -0.0 and 0.0 are two values; NaN is carried   *)
(* with neg = FALSE.                                                       *)
(***************************************************************************)
\* the value a one-element set holds: {F(v) : v \in {e}} names e once
The(S) == CHOOSE v \in S : TRUE

Signed64(s, x) == The({[neg |-> s /\ a.cls # "nan", abs |-> a] : a \in {x}})
Plus64(x) == Signed64(FALSE, x)

signbit(v) == v.neg
isnan(v) == v.abs.cls = "nan"
iszero(v) == v.abs.cls = "zero"

\* -v
Neg64(v) == The({Signed64(~a.neg, a.abs) : a \in {v}})

\* v + w: magnitudes add under one sign; under two signs the smaller is taken
\* from the larger, and equal magnitudes give +0.0 (inf - inf gives NaN)
AddS64(v, w) ==
    The({IF isnan(a) \/ isnan(b) THEN Plus64(NaN64)
         ELSE IF a.neg = b.neg THEN Signed64(a.neg, Add64(a.abs, b.abs))
         ELSE IF a.abs = b.abs
         THEN Plus64(IF a.abs.cls = "inf" THEN NaN64 ELSE Zero64)
         ELSE IF Le64(b.abs, a.abs) THEN Signed64(a.neg, Sub64(a.abs, b.abs))
         ELSE Signed64(b.neg, Sub64(b.abs, a.abs)) :
            a \in {v}, b \in {w}})

\* v - w
SubS64(v, w) == AddS64(v, Neg64(w))

\* v / w
DivS64(v, w) ==
    The({Signed64(a.neg # b.neg, Div64(a.abs, b.abs)) : a \in {v}, b \in {w}})

\* v / float(d) for an int d, 0 < d <= LIMB
DivIntS64(v, d) == The({Signed64(a.neg, DivInt64(a.abs, d)) : a \in {v}})

\* v < w
LtS64(v, w) ==
    The({/\ ~isnan(a)
         /\ ~isnan(b)
         /\ IF a.neg /\ ~b.neg THEN ~(iszero(a) /\ iszero(b))
            ELSE IF ~a.neg /\ b.neg THEN FALSE
            ELSE IF a.neg THEN Lt64(b.abs, a.abs)
            ELSE Lt64(a.abs, b.abs) :
            a \in {v}, b \in {w}})

\* v == w
EqS64(v, w) ==
    The({~isnan(a) /\ ~isnan(b) /\ ~LtS64(a, b) /\ ~LtS64(b, a) :
            a \in {v}, b \in {w}})

PlusZero64 == Plus64(Zero64)
One64 == Plus64(FromInt64(1))
Hundred64 == Plus64(FromInt64(100))

(***************************************************************************)
(* Strings as sequences of characters.                                     *)
(***************************************************************************)
Alphabet == {"a", "A", " ", "."}

upper_char(ch) == IF ch = "a" THEN "A" ELSE ch
upper(s) == [i \in 1..Len(s) |-> upper_char(s[i])]

isspace(ch) == ch = " "

RECURSIVE lstrip(_)
lstrip(s) == IF s # <<>> /\ isspace(Head(s)) THEN lstrip(Tail(s)) ELSE s

RECURSIVE rstrip(_)
rstrip(s) ==
    IF s # <<>> /\ isspace(s[Len(s)]) THEN rstrip(SubSeq(s, 1, Len(s) - 1)) ELSE s

strip(s) == rstrip(lstrip(s))

Contains(s, ch) == \E i \in 1..Len(s) : s[i] = ch

NS_SUFFIX == <<".", "N", "S">>

(***************************************************************************)
(* Series (pandas.Series over a positional index 1..n) of extended         *)
(* rationals.                                                              *)
(***************************************************************************)
Min2(a, b) == IF a < b THEN a ELSE b
Max2(a, b) == IF a > b THEN a ELSE b

SeriesAdd(s, t) == [i \in 1..Len(s) |-> Add(s[i], t[i])]
SeriesMul(s, t) == [i \in 1..Len(s) |-> Mul(s[i], t[i])]
SeriesDiv(s, t) == [i \in 1..Len(s) |-> Div(s[i], t[i])]
SeriesNeg(s) == [i \in 1..Len(s) |-> Neg(s[i])]
SeriesDivScalar(s, k) == [i \in 1..Len(s) |-> Div(s[i], Int2Num(k))]

\* Series.diff(): the first row has no predecessor and is NaN
diff(s) == [i \in 1..Len(s) |-> IF i = 1 THEN NaN ELSE Sub(s[i], s[i - 1])]

\* delta.where(delta > 0, 0): rows where the condition is false (NaN too) become 0
where_positive(s) ==
    [i \in 1..Len(s) |-> IF Gt(s[i], Int2Num(0)) THEN s[i] ELSE Int2Num(0)]

\* delta.where(delta < 0, 0)
where_negative(s) ==
    [i \in 1..Len(s) |-> IF Lt(s[i], Int2Num(0)) THEN s[i] ELSE Int2Num(0)]

\* running sum and running count of the non-NaN rows, from which a window's
\* sum and number of observations are read off
RunningSum(s) ==
    LET step(acc, i) ==
            Append(acc, Add(IF acc = <<>> THEN Int2Num(0) ELSE acc[Len(acc)],
                            IF IsNaN(s[i]) THEN Int2Num(0) ELSE s[i]))
    IN  Fold(step, <<>>, 1, Len(s))

RunningCount(s) ==
    LET step(acc, i) ==
            Append(acc, (IF acc = <<>> THEN 0 ELSE acc[Len(acc)])
                        + (IF IsNaN(s[i]) THEN 0 ELSE 1))
    IN  Fold(step, <<>>, 1, Len(s))

\* Series.cumsum(): NaN rows stay NaN and are skipped by the running sum
cumsum(s) ==
    LET rs == RunningSum(s)
    IN  [i \in 1..Len(s) |-> IF IsNaN(s[i]) THEN NaN ELSE rs[i]]

\* the rows a rolling window of width w covers at row i of n rows
WindowLo(i, w, n) == Max2(1, i - w + 1)

WindowHiCentered(i, w, n) == Min2(n, i + 1)
WindowHi(i, w, n) == i

\* Series.rolling(window=w, min_periods=minp).mean()
rolling_mean(s, w, minp) ==
    LET n == Len(s)
        rs == RunningSum(s)
        rc == RunningCount(s)
    IN  [i \in 1..n |->
            LET lo == WindowLo(i, w, n)
                hi == WindowHi(i, w, n)
                nobs == rc[hi] - (IF lo = 1 THEN 0 ELSE rc[lo - 1])
                total == IF lo = 1 THEN rs[hi] ELSE Sub(rs[hi], rs[lo - 1])
            IN  IF nobs < minp THEN NaN ELSE Div(total, Int2Num(nobs))]

\* the larger (smaller) of a running extreme and row i, NaN rows skipped
max_step(s, acc, i) ==
    IF IsNaN(s[i]) THEN acc
    ELSE IF IsNaN(acc) \/ Gt(s[i], acc) THEN s[i] ELSE acc

min_step(s, acc, i) ==
    IF IsNaN(s[i]) THEN acc
    ELSE IF IsNaN(acc) \/ Lt(s[i], acc) THEN s[i] ELSE acc

\* the extreme of each row's window, slid from the window of the row before:
\* when no row that leaves the window held the extreme, the rows that enter
\* are folded onto it, otherwise the window is folded afresh
slide(s, w, E(_, _, _), acc, i) ==
    LET n == Len(s)
        lo == WindowLo(i, w, n)
        hi == WindowHi(i, w, n)
        plo == IF i = 1 THEN lo ELSE WindowLo(i - 1, w, n)
        phi == IF i = 1 THEN lo - 1 ELSE WindowHi(i - 1, w, n)
        prev == IF i = 1 THEN NaN ELSE acc[i - 1]
        inwin(a, j) == E(s, a, j)
    IN  IF \E j \in plo..(lo - 1) : s[j] = prev
        THEN Fold(inwin, NaN, lo, hi)
        ELSE Fold(inwin, prev, phi + 1, hi)

window_extreme(s, w, E(_, _, _)) ==
    LET row(acc, i) == Append(acc, slide(s, w, E, acc, i))
    IN  Fold(row, <<>>, 1, Len(s))

\* a rolling extreme: NaN where the window holds fewer than minp observations
rolling_extreme(s, w, minp, E(_, _, _)) ==
    LET n == Len(s)
        rc == RunningCount(s)
        m == window_extreme(s, w, E)
    IN  [i \in 1..n |->
            LET lo == WindowLo(i, w, n)
                hi == WindowHi(i, w, n)
                nobs == rc[hi] - (IF lo = 1 THEN 0 ELSE rc[lo - 1])
            IN  IF nobs < minp THEN NaN ELSE m[i]]

\* Series.rolling(window=w, min_periods=minp).max()
rolling_max_default(s, w, minp) == rolling_extreme(s, w, w, max_step)
rolling_max(s, w, minp) == rolling_extreme(s, w, minp, max_step)

\* Series.rolling(window=w, min_periods=minp).min()
rolling_min(s, w, minp) == rolling_extreme(s, w, minp, min_step)

\* Series.ewm(span=span, adjust=False).mean(): y[1] = x[1],
\* y[i] = (1 - alpha) * y[i-1] + alpha * x[i] with alpha = 2 / (span + 1),
\* carried in units of 1/EmaScale
ToFixed(a) == (a[1] * EmaScale) \div a[2]

ewm_next(s, span, prev, i) ==
    IF i = 1 THEN ToFixed(s[1])
    ELSE ((span - 1) * prev + 2 * ToFixed(s[i])) \div (span + 1)

ewm_step(s, span, acc, i) ==
    [prev |-> ewm_next(s, span, acc.prev, i),
     out |-> Append(acc.out, Norm(ewm_next(s, span, acc.prev, i), EmaScale))]

ewm_mean(s, span) ==
    LET step(acc, i) == ewm_step(s, span, acc, i)
    IN  Fold(step, [prev |-> 0, out |-> <<>>], 1, Len(s)).out

(***************************************************************************)
(* Tables (pandas.DataFrame): a header, `columns`, that is a flat Index    *)
(* (nlevels = 1, values are field names) or a MultiIndex (nlevels = 2,     *)
(* values are <<field name, ticker>> pairs), and one data column per       *)
(* header entry.                                                           *)
(***************************************************************************)
None == [kind |-> "None"]

DataFrame(columns, data, nrows) ==
    [kind |-> "DataFrame", columns |-> columns, data |-> data, nrows |-> nrows]

Index(values) == [nlevels |-> 1, values |-> values]
MultiIndex(values) == [nlevels |-> 2, values |-> values]

\* df.empty
empty(t) == Len(t.columns.values) = 0 \/ t.nrows = 0

\* isinstance(df.columns, pd.MultiIndex)
IsMultiIndex(columns) == columns.nlevels = 2

get_level_values_1(columns) ==
    Index([k \in 1..Len(columns.values) |-> columns.values[k][2]])

\* df.columns.get_level_values(0)
get_level_values_0(columns) ==
    Index([k \in 1..Len(columns.values) |-> columns.values[k][1]])

header_repair_inner(t) ==
    IF IsMultiIndex(t.columns)
    THEN [t EXCEPT !.columns = get_level_values_1(t.columns)]
    ELSE t

\* lines 31-32
header_repair(t) ==
    IF IsMultiIndex(t.columns)
    THEN [t EXCEPT !.columns = get_level_values_0(t.columns)]
    ELSE t

\* df[name] on a flat header; a label that is not there is a KeyError
Positions(t, name) ==
    {k \in 1..Len(t.columns.values) :
        t.columns.nlevels = 1 /\ t.columns.values[k] = name}
HasColumn(t, name) == Positions(t, name) # {}
getitem(t, name) == t.data[CHOOSE k \in Positions(t, name) : TRUE]

\* df[name] = s
setitem(t, name, s) ==
    IF HasColumn(t, name)
    THEN [t EXCEPT !.data[CHOOSE k \in Positions(t, name) : TRUE] = s]
    ELSE [t EXCEPT !.columns.values = Append(@, name), !.data = Append(@, s)]

\* df.iloc[r] for a 1-based row r, as a record of the named fields
Row(t, r) == [name \in {t.columns.values[k] : k \in 1..Len(t.columns.values)} |->
                 getitem(t, name)[r]]

(***************************************************************************)
(* The upstream source (yf.download): the bars it holds, the tickers for   *)
(* which it has them, and the shape of the header it returns.              *)
(***************************************************************************)
FIELDS == <<"Close", "High", "Low", "Open", "Volume">>
BAD_FIELDS == <<"Adj Close", "High", "Low", "Open", "Volume">>

Bar(c, v) == [Open |-> c, High |-> c + 2, Low |-> c - 1, Close |-> c, Volume |-> v]

FieldOf(b, name) ==
    CASE name = "Close" -> b.Close
      [] name = "High" -> b.High
      [] name = "Low" -> b.Low
      [] name = "Open" -> b.Open
      [] name = "Volume" -> b.Volume
      [] OTHER -> b.Close

Shapes == {"flat", "nested", "malformed"}

HeaderOf(sh, tk) ==
    CASE sh = "flat" -> Index(FIELDS)
      [] sh = "nested" -> MultiIndex([k \in 1..Len(FIELDS) |-> <<FIELDS[k], tk>>])
      [] OTHER -> Index(BAD_FIELDS)

\* what yf.download returns for a ticker: the bars under the header, or an
\* empty table when the source has no series for that spelling
download(tk, bars, sh, has) ==
    LET rows == IF tk \in has THEN bars ELSE <<>>
    IN  DataFrame(HeaderOf(sh, tk),
                  [k \in 1..Len(FIELDS) |->
                      [r \in 1..Len(rows) |-> Int2Num(FieldOf(rows[r], FIELDS[k]))]],
                  Len(rows))

(***************************************************************************)
(* get_market_intelligence, lines 17-55.                                   *)
(***************************************************************************)
resolve_ticker_suffixed(sym) == upper(strip(sym)) \o NS_SUFFIX

\* lines 19-21
resolve_ticker(sym) ==
    LET t == upper(strip(sym))
    IN  IF ~Contains(t, ".") THEN t \o NS_SUFFIX ELSE t

\* line 24
lookback(iv) == IF iv \in {"15m", "1h"} THEN "60d" ELSE "max"

\* line 39, as the value the formula denotes.  The closes of Spec and
\* SpecSeries are whole numbers below 2^31: a window's gain is then less than
\* 2^31 times its loss, far from the 2^53 times from which the double of
\* line 39 can round to 100, and the double is NaN, 100 or inside [0, 100)
\* exactly when this value is.  What rounding does at line 39 is the subject
\* of SpecRsi, which runs lines 36-39 in binary64.
rsi_formula(g, l) ==
    [i \in 1..Len(g) |->
        Sub(Int2Num(100),
            Div(Int2Num(100), Add(Int2Num(1), Div(g[i], l[i]))))]

\* line 37
avg_gain(d) == rolling_mean(where_positive(d), RSI_WINDOW, RSI_WINDOW)

\* line 38
avg_loss(d) == rolling_mean(SeriesNeg(where_negative(d)), RSI_WINDOW, RSI_WINDOW)

\* line 42
typical_price(high, low, close) ==
    SeriesDivScalar(SeriesAdd(SeriesAdd(high, low), close), 3)

\* line 43
vwap(typical, volume) ==
    SeriesDiv(cumsum(SeriesMul(typical, volume)), cumsum(volume))

\* line 36 in binary64: Series.diff()
diff64(close) ==
    [i \in 1..Len(close) |->
        IF i = 1 THEN Plus64(NaN64) ELSE SubS64(close[i], close[i - 1])]

\* line 37: delta.where(delta > 0, 0)
gain64(d) ==
    [i \in 1..Len(d) |-> IF LtS64(PlusZero64, d[i]) THEN d[i] ELSE PlusZero64]

\* line 38: -delta.where(delta < 0, 0); a row that is no loss holds -0.0
loss64(d) ==
    [i \in 1..Len(d) |->
        Neg64(IF LtS64(d[i], PlusZero64) THEN d[i] ELSE PlusZero64)]

\* rolling(window).mean() is pandas' roll_mean: one running sum for the whole
\* column, to which a row is added when it enters the window and from which
\* it is taken when it leaves, both by Kahan summation.  The state:
NoRows ==
    [nobs |-> 0, sum_x |-> PlusZero64, neg_ct |-> 0,
     compensation_add |-> PlusZero64, compensation_remove |-> PlusZero64,
     num_consecutive_same_value |-> 0, prev_value |-> PlusZero64]

\* add_mean: y = val - compensation; t = sum_x + y;
\* compensation = t - sum_x - y; sum_x = t
add_mean(st, val) ==
    The({IF isnan(v) THEN s
         ELSE The({The({[s EXCEPT
                           !.nobs = @ + 1,
                           !.sum_x = t,
                           !.compensation_add =
                               The({SubS64(u, y) : u \in {SubS64(t, s.sum_x)}}),
                           !.neg_ct = @ + (IF signbit(v) THEN 1 ELSE 0),
                           !.num_consecutive_same_value =
                               IF EqS64(v, s.prev_value) THEN @ + 1 ELSE 1,
                           !.prev_value = v] :
                        t \in {AddS64(s.sum_x, y)}}) :
                   y \in {SubS64(v, s.compensation_add)}}) :
            s \in {st}, v \in {val}})

\* remove_mean: y = -val - compensation; t = sum_x + y;
\* compensation = t - sum_x - y; sum_x = t
remove_mean(st, val) ==
    The({IF isnan(v) THEN s
         ELSE The({The({[s EXCEPT
                           !.nobs = @ - 1,
                           !.sum_x = t,
                           !.compensation_remove =
                               The({SubS64(u, y) : u \in {SubS64(t, s.sum_x)}}),
                           !.neg_ct = @ - (IF signbit(v) THEN 1 ELSE 0)] :
                        t \in {AddS64(s.sum_x, y)}}) :
                   y \in {SubS64(Neg64(v), s.compensation_remove)}}) :
            s \in {st}, v \in {val}})

\* calc_mean: the sum over the count; the value itself when the whole window
\* holds one value; 0 for a sum whose sign no value of the window has
calc_mean(minp, st) ==
    The({IF s.nobs >= minp /\ s.nobs > 0
         THEN The({IF s.num_consecutive_same_value >= s.nobs THEN s.prev_value
                   ELSE IF s.neg_ct = 0 /\ LtS64(result, PlusZero64)
                   THEN PlusZero64
                   ELSE IF s.neg_ct = s.nobs /\ LtS64(PlusZero64, result)
                   THEN PlusZero64
                   ELSE result :
                      result \in {DivIntS64(s.sum_x, s.nobs)}})
         ELSE Plus64(NaN64) :
            s \in {st}})

\* roll_mean over the windows max(1, i - w + 1)..i
roll_mean(values, w, minp) ==
    LET start(i) == Max2(1, i - w + 1)
        row(acc, i) ==
            The({[st |-> st, out |-> Append(acc.out, calc_mean(minp, st))] :
                    st \in {IF i = 1 \/ start(i) > i - 1
                            THEN add_mean([NoRows EXCEPT !.prev_value = values[i]],
                                          values[i])
                            ELSE IF start(i) > start(i - 1)
                            THEN add_mean(remove_mean(acc.st,
                                                      values[start(i - 1)]),
                                          values[i])
                            ELSE add_mean(acc.st, values[i])}})
    IN  Fold(row, [st |-> NoRows, out |-> <<>>], 1, Len(values)).out

rsi64_swapped(g, l) ==
    [i \in 1..Len(g) |->
        The({SubS64(Hundred64, quotient) :
                quotient \in {DivS64(Hundred64, denominator) :
                    denominator \in {AddS64(One64, rs) :
                        rs \in {DivS64(l[i], g[i])}}}})]

\* line 39 in binary64
rsi64(g, l) ==
    [i \in 1..Len(g) |->
        The({SubS64(Hundred64, quotient) :
                quotient \in {DivS64(Hundred64, denominator) :
                    denominator \in {AddS64(One64, rs) :
                        rs \in {DivS64(g[i], l[i])}}}})]

\* line 42 in binary64
typical_price64(high, low, close) ==
    [i \in 1..Len(close) |->
        DivInt64(Add64(Add64(high[i], low[i]), close[i]), 3)]

\* Series.cumsum() of a float64 Series without NaN: numpy adds row by row
cumsum64(s) ==
    LET step(acc, i) ==
            Append(acc, IF acc = <<>> THEN s[i] ELSE Add64(acc[Len(acc)], s[i]))
    IN  Fold(step, <<>>, 1, Len(s))

\* Series.cumsum() of the int64 Volume column
cumsum_int64(s) ==
    LET step(acc, i) ==
            Append(acc, (IF acc = <<>> THEN 0 ELSE acc[Len(acc)]) + s[i])
    IN  Fold(step, <<>>, 1, Len(s))

vwap64_per_bar(typical, volume) ==
    [i \in 1..Len(typical) |->
        DivInt64(MulInt64(typical[i], volume[i]), volume[i])]

\* line 43 in binary64
vwap64(typical, volume) ==
    LET num == cumsum64([i \in 1..Len(typical) |->
                            MulInt64(typical[i], volume[i])])
        den == cumsum_int64(volume)
    IN  [i \in 1..Len(typical) |-> DivInt64(num[i], den[i])]

\* a Series local that is not bound yet
Unbound == <<>>

absent_resolved(sym, tk) == <<None, tk>>

\* lines 28 and 55: the absent result carries the symbol as it was passed in
absent(sym, tk) == <<None, sym>>

(***************************************************************************)
(* The terminal page, lines 165-221.                                       *)
(***************************************************************************)
\* line 185, on the double of the last row
momentum(rsi) ==
    IF Lt64(FromInt64(RSI_OVERBOUGHT), rsi) THEN "OVERBOUGHT"
    ELSE IF Lt64(rsi, FromInt64(RSI_OVERSOLD)) THEN "OVERSOLD"
    ELSE "NEUTRAL"

RECURSIVE ToInt(_)
ToInt(a) == IF a = <<>> THEN 0 ELSE a[1] + LIMB * ToInt(Tail(a))

\* the integer nearest to big * 2^e, ties to even
RoundHalfEven(big, e) ==
    IF e >= 0 THEN Shl(big, e)
    ELSE LET q == Shr(big, -e)
             rest == BigSub(big, Shl(q, -e))
             half == Shl(<<1>>, -e - 1)
             up == IF rest = half THEN LimbAt(q, 1) % 2 = 1 ELSE BigLe(half, rest)
         IN  IF up THEN BigAdd(q, <<1>>) ELSE q

\* f"{x:.1f}" of a double: nan and inf are printed as text, and a finite
\* value as the tenth nearest to its exact binary value (ties to even).  The
\* doubles here carry no sign: the page formats an RSI, which lies in
\* [0, 100], and a VWAP of positive prices.
format_1f(x) ==
    IF x.cls = "nan" THEN [text |-> "nan", tenths |-> 0]
    ELSE IF x.cls = "inf" THEN [text |-> "inf", tenths |-> 0]
    ELSE IF x.cls = "zero" THEN [text |-> "number", tenths |-> 0]
    ELSE [text |-> "number",
          tenths |-> ToInt(RoundHalfEven(BigMulSmall(x.m, 10), x.e))]

\* the double nearest to a table value x >= 0
FromExact(x) ==
    IF IsNaN(x) THEN NaN64
    ELSE IF IsInf(x) THEN Inf64
    ELSE IF x[2] = 1 THEN FromInt64(x[1])
    ELSE IF x[2] <= LIMB THEN DivInt64(FromInt64(x[1]), x[2])
    ELSE Div64(FromInt64(x[1]), FromInt64(x[2]))

\* 10 * x lies midway between two integers
OnTie(x) ==
    /\ IsFinite(x)
    /\ (20 * x[1]) % x[2] = 0
    /\ ((20 * x[1]) \div x[2]) % 2 = 1

\* the doubles the page reads from the last row, last["RSI"] and
\* last["VWAP"].  The table holds their exact values, and the double in the
\* cell is within a few hundred units in the last place of it.  A value here
\* is a ratio of integers below 2^31, so when it is not itself on a tie of
\* tenths, or on 30 or 70, it is farther from these than the rounding reaches
\* and the nearest double prints and classifies as the cell does; when it is,
\* the cell is computed as lines 36-43 compute it, from the downloaded
\* columns.  An RSI of whole-number closes lies in [0, 100], and its
\* magnitude is the value.
last64(t) ==
    LET n == t.nrows
        exact == Row(t, n)
        col(name) == [i \in 1..n |-> FromExact(getitem(t, name)[i])]
        signed(name) == [i \in 1..n |-> Plus64(FromExact(getitem(t, name)[i]))]
        volume == [i \in 1..n |-> getitem(t, "Volume")[i][1]]
    IN  [RSI |-> IF \/ OnTie(exact["RSI"])
                    \/ exact["RSI"] \in {Int2Num(RSI_OVERSOLD),
                                         Int2Num(RSI_OVERBOUGHT)}
                 THEN The({rsi64(g, l)[n].abs :
                              g \in {roll_mean(gain64(d), RSI_WINDOW, RSI_WINDOW) :
                                         d \in {diff64(signed("Close"))}},
                              l \in {roll_mean(loss64(d), RSI_WINDOW, RSI_WINDOW) :
                                         d \in {diff64(signed("Close"))}}})
                 ELSE FromExact(exact["RSI"]),
         VWAP |-> IF OnTie(exact["VWAP"])
                  THEN The({vwap64(typical, volume)[n] :
                               typical \in {typical_price64(high, low, close) :
                                               high \in {col("High")},
                                               low \in {col("Low")},
                                               close \in {col("Close")}}})
                  ELSE FromExact(exact["VWAP"])]

\* lines 168-186
page_summary(t) ==
    LET last == Row(t, t.nrows)
        prev == Row(t, t.nrows - 1)
        change == Mul(Div(Sub(last["Close"], prev["Close"]), prev["Close"]),
                      Int2Num(100))
    IN  The({[kind |-> "summary",
              change |-> change,
              vwap |-> format_1f(cell.VWAP),
              rsi |-> format_1f(cell.RSI),
              rsi_text |-> momentum(cell.RSI)] : cell \in {last64(t)}})

\* st.cache_data: results by arguments; no entry at start
NoEntries == [key \in {} |-> <<None, <<>>>>]
store(entries, key, value) ==
    [k \in DOMAIN entries \cup {key} |-> IF k = key THEN value ELSE entries[k]]

\* st.session_state.history[-5:]
recent(h) == {h[k] : k \in Max2(1, Len(h) - 4)..Len(h)}

\* lines 153-154
remember(h, query) ==
    IF \E k \in 1..Len(h) : h[k] = query THEN h ELSE Append(h, query)

NoSummary == [kind |-> "none"]
NotFoundError == [kind |-> "error"]

(***************************************************************************)
(* Inputs: the symbols a caller passes, the intervals of the select box    *)
(* (line 150), and the bar series the upstream source may hold.            *)
(***************************************************************************)
RECURSIVE SeqsUpTo(_)
SeqsUpTo(n) ==
    IF n = 0 THEN {<<>>}
    ELSE LET shorter == SeqsUpTo(n - 1)
         IN  shorter \cup {Append(q, ch) : q \in shorter, ch \in Alphabet}

Symbols == SeqsUpTo(MaxSymLen) \ {<<>>}
Intervals == {"15m", "1h", "1d"}

\* line 150: the select box shows its first option until another is picked
DEFAULT_TIMEFRAME == "15m"

\* line 68
DEFAULT_STOCK == <<"A">>

\* line 69
DEFAULT_HISTORY == <<<<"A">>, <<"A", "A">>, <<"A", "A", "A">>>>

\* what the user types into the search box
Queries == {<<"a">>, <<"A", ".">>}

Universe ==
    {<<"A">>, <<"A", ".", "N", "S">>, <<"A", ".">>, <<"A", "A", ".", "N", "S">>}

VolumeKinds == {"const", "zero", "alt", "late"}

CloseAt(kind, n, p, i) ==
    CASE kind = "flat" -> BasePrice
      [] kind = "up" -> BasePrice + i
      [] kind = "down" -> BasePrice + (n - i)
      [] kind = "spike" -> BasePrice + (IF i = p THEN Step ELSE 0)
      [] OTHER -> BasePrice - (IF i = p THEN Step ELSE 0)

VolumeAt(vk, p, i) ==
    CASE vk = "const" -> BaseVolume
      [] vk = "zero" -> 0
      [] vk = "alt" -> BaseVolume + (i % 2)
      [] OTHER -> IF i < p THEN 0 ELSE BaseVolume

MakeFeed(n, kind, vk, p) ==
    [i \in 1..n |-> Bar(CloseAt(kind, n, p, i), VolumeAt(vk, p, i))]

\* the rows where a spike, a dip or the first traded volume is placed: the
\* first row, the row that has just left the 252-bar window, the row that
\* opens the last 14-bar window, and the last row
Pivots(n) == {1, n - W52_WINDOW, n - RSI_WINDOW + 1, n} \cap (1..n)

ShortFeeds == {MakeFeed(n, "up", "const", 1) : n \in 1..ShortLen}

SeriesLens == {1, 2, RSI_WINDOW, SMA_WINDOW, LongLen}

\* closes that stay, rise or fall under every kind of volume that does not
\* depend on a row; a spike or a dip at each pivot; and rising closes whose
\* volume is zero before a pivot
FeedsOfLen(n) ==
    {MakeFeed(n, kind, vk, 1) :
        kind \in {"flat", "up", "down"}, vk \in VolumeKinds \ {"late"}}
    \cup
    {MakeFeed(n, kind, "const", p) : kind \in {"spike", "dip"}, p \in Pivots(n)}
    \cup
    {MakeFeed(n, "up", "late", p) : p \in Pivots(n)}

\* fifteen bars with one rise of 3 and one fall of 77 between them: the last
\* RSI is 300 / 80 = 3.75 exactly, midway between two tenths, and line 39
\* computes a double just below it
TieFeed ==
    [i \in 1..(RSI_WINDOW + 1) |->
        Bar(IF i = 1 THEN 100 ELSE IF i = 2 THEN 103 ELSE 26, BaseVolume)]

SeriesFeeds == UNION {FeedsOfLen(n) : n \in SeriesLens} \cup {TieFeed}

\* bars quoted in whole cents, for SpecVwap: one price on every bar, or a
\* price and a range that move from bar to bar
CentPrices == {100, 101, 110, 300}
Volumes64 == {0, 1, 3}
CentKinds == {"same", "moving"}

CentBar(kind, p, i, v) ==
    IF kind = "same"
    THEN [Open |-> p, High |-> p, Low |-> p, Close |-> p, Volume |-> v]
    ELSE [Open |-> p, High |-> p + 2 * i, Low |-> p - i, Close |-> p + i,
          Volume |-> v]

CentFeeds ==
    UNION {{[i \in 1..n |-> CentBar(kind, p, i, vols[i])] :
               kind \in CentKinds, p \in CentPrices, vols \in [1..n -> Volumes64]} :
           n \in 1..MaxBars}

\* what yf.download returns for such bars: float64 prices, int64 volumes
download64(bars) ==
    DataFrame(Index(FIELDS),
              [k \in 1..Len(FIELDS) |->
                  [r \in 1..Len(bars) |->
                      IF FIELDS[k] = "Volume" THEN bars[r].Volume
                      ELSE FromCents(FieldOf(bars[r], FIELDS[k]))]],
              Len(bars))

\* closes m * 2^e, as pairs <<m, e>>: series of MaxRsiBars rows at most whose
\* closes are small, or small but for a stretch near 2^BigExp
RsiLens == {RSI_WINDOW - 1, RSI_WINDOW, MaxRsiBars}
RsiPivots == {1, 2, 3}
RsiExps == {BigExp - 7, BigExp - 6, BigExp}
RsiSteady == {"flat", "up", "down", "saw"}
RsiBreaks == {"jump", "crash", "spike", "plunge"}

ScaledClose(kind, p, E, i) ==
    CASE kind = "flat" -> <<3, 0>>
      [] kind = "up" -> <<i, 0>>
      [] kind = "down" -> <<2 * MaxRsiBars - i, 0>>
      [] kind = "saw" -> <<3 + (i % 2), 0>>
      \* p, ..., 2, 1, and 2^E from then on
      [] kind = "jump" -> IF i <= p THEN <<p + 1 - i, 0>> ELSE <<1, E>>
      \* 2^E for p rows, and i from then on
      [] kind = "crash" -> IF i <= p THEN <<1, E>> ELSE <<i, 0>>
      \* 1 for p rows, 2^E for one, and i from then on
      [] kind = "spike" ->
            IF i <= p THEN <<1, 0>> ELSE IF i = p + 1 THEN <<1, E>> ELSE <<i, 0>>
      \* 2^E for p rows, and falling by one a row from then on
      [] OTHER -> IF i <= p THEN <<1, E>> ELSE <<2 * MaxRsiBars - i, 0>>

ScaledBar(c) ==
    [Open |-> c, High |-> c, Low |-> c, Close |-> c, Volume |-> BaseVolume]

RsiFeeds ==
    UNION {{[i \in 1..n |-> ScaledBar(ScaledClose(kind, 1, 0, i))] :
               kind \in RsiSteady}
           \cup {[i \in 1..n |-> ScaledBar(ScaledClose(kind, p, E, i))] :
                    kind \in RsiBreaks, p \in RsiPivots, E \in RsiExps} :
           n \in RsiLens}

\* what yf.download returns for such bars: float64 prices, int64 volumes
download_scaled(bars) ==
    DataFrame(Index(FIELDS),
              [k \in 1..Len(FIELDS) |->
                  [r \in 1..Len(bars) |->
                      IF FIELDS[k] = "Volume" THEN bars[r].Volume
                      ELSE Plus64(Round64(Big(FieldOf(bars[r], FIELDS[k])[1]),
                                          FieldOf(bars[r], FIELDS[k])[2]))]],
              Len(bars))

\* the bars the source may have added since the page was first run
NewBars == {Bar(BasePrice, BaseVolume), Bar(BasePrice + Step, 0)}

\* what the source holds at a download: on a rerun, the series it held at
\* the download before, or that series and one bar more
Arrivals(bars, reruns) ==
    {bars} \cup (IF reruns > 0 THEN {Append(bars, b) : b \in NewBars} ELSE {})

InitLocals ==
    /\ cache = NoEntries
    /\ ticker = <<>>
    /\ period = ""
    /\ df = None
    /\ delta = Unbound
    /\ gain = Unbound
    /\ loss = Unbound
    /\ tp = Unbound
    /\ raised = FALSE
    /\ page_df = None
    /\ full_name = <<>>
    /\ summary = NoSummary
    /\ ticks = 0

\* lines 67-69: a new session, on the welcome screen
Init ==
    /\ symbol = DEFAULT_STOCK
    /\ interval = DEFAULT_TIMEFRAME
    /\ history = DEFAULT_HISTORY
    /\ listed \in SUBSET Universe
    /\ feed \in ShortFeeds
    /\ shape \in Shapes
    /\ pc = "welcome"
    /\ InitLocals

\* one call of the engine, with any symbol and any interval a caller may pass
InitEngine ==
    /\ symbol \in Symbols
    /\ interval \in Intervals
    /\ history = DEFAULT_HISTORY
    /\ listed \in SUBSET Universe
    /\ feed = MakeFeed(2, "up", "const", 1)
    /\ shape \in Shapes
    /\ pc = "start"
    /\ InitLocals

InitSeries ==
    /\ symbol \in {upper(typed) : typed \in Queries}
    /\ interval = "1d"
    /\ history = remember(DEFAULT_HISTORY, symbol)
    /\ listed = {<<"A", ".", "N", "S">>}
    /\ feed \in SeriesFeeds
    /\ shape \in IF Len(feed) = 2 THEN Shapes ELSE {"flat"}
    /\ symbol = <<"A", ".">> => Len(feed) = 1
    /\ pc = "start"
    /\ InitLocals

(***************************************************************************)
(* Steps of get_market_intelligence.                                       *)
(***************************************************************************)
\* line 15: the arguments of the call, which key its cached result
CacheKey == <<symbol, interval>>

\* line 15: a result stored for these arguments less than ttl ago is returned
\* without running the body
CacheHit ==
    /\ pc = "start"
    /\ CacheKey \in DOMAIN cache
    /\ page_df' = cache[CacheKey][1]
    /\ full_name' = cache[CacheKey][2]
    /\ pc' = "cached"
    /\ UNCHANGED <<symbol, interval, history, cache, listed, feed, shape,
                   ticker, period, df, delta, gain, loss, tp, raised, summary,
                   ticks>>

\* lines 19-25, the download returns; the body runs when no result is stored
\* for the arguments or the stored one is older than ttl
Download ==
    /\ pc = "start"
    /\ ticker' = resolve_ticker(symbol)
    /\ period' = lookback(interval)
    /\ feed' \in Arrivals(feed, ticks)
    /\ df' = download(ticker', feed', shape, listed)
    /\ raised' = FALSE
    /\ pc' = "check"
    /\ UNCHANGED <<symbol, interval, history, cache, listed, shape, delta,
                   gain, loss, tp, page_df, full_name, summary, ticks>>

\* lines 19-25, the download raises (network error, unsupported symbol)
DownloadRaises ==
    /\ pc = "start"
    /\ ticker' = resolve_ticker(symbol)
    /\ period' = lookback(interval)
    /\ df' = None
    /\ raised' = TRUE
    /\ pc' = "except"
    /\ UNCHANGED <<symbol, interval, history, cache, listed, feed, shape,
                   delta, gain, loss, tp, page_df, full_name, summary, ticks>>

\* lines 27-28
ReturnEmpty ==
    /\ pc = "check"
    /\ empty(df)
    /\ page_df' = absent(symbol, ticker)[1]
    /\ full_name' = absent(symbol, ticker)[2]
    /\ cache' = store(cache, CacheKey, <<page_df', full_name'>>)
    /\ pc' = "page"
    /\ UNCHANGED <<history, delta, gain, loss, tp, symbol, interval, listed, feed,
                   shape, ticker, period, df, raised, summary, ticks>>

\* line 27, the table has rows
NotEmpty ==
    /\ pc = "check"
    /\ ~empty(df)
    /\ pc' = "repair"
    /\ UNCHANGED <<history, cache, delta, gain, loss, tp, symbol, interval, listed, feed,
                   shape, ticker, period, df, raised, page_df, full_name,
                   summary, ticks>>

\* lines 31-32
HeaderRepair ==
    /\ pc = "repair"
    /\ df' = header_repair(df)
    /\ pc' = "indicators"
    /\ UNCHANGED <<history, cache, delta, gain, loss, tp, symbol, interval, listed, feed,
                   shape, ticker, period, raised, page_df, full_name, summary,
                   ticks>>

\* line 36
Delta ==
    /\ pc = "indicators"
    /\ HasColumn(df, "Close")
    /\ delta' = diff(getitem(df, "Close"))
    /\ pc' = "gain"
    /\ UNCHANGED <<history, cache, symbol, interval, listed, feed, shape, ticker, period,
                   raised, page_df, full_name, summary, ticks, df, gain, loss,
                   tp>>

\* line 36, the table has no Close column: df['Close'] raises KeyError
DeltaRaises ==
    /\ pc = "indicators"
    /\ ~HasColumn(df, "Close")
    /\ raised' = TRUE
    /\ pc' = "except"
    /\ UNCHANGED <<history, cache, symbol, interval, listed, feed, shape, ticker, period, df,
                   delta, gain, loss, tp, page_df, full_name, summary, ticks>>

\* line 37
Gain ==
    /\ pc = "gain"
    /\ gain' = avg_gain(delta)
    /\ pc' = "loss"
    /\ UNCHANGED <<history, cache, symbol, interval, listed, feed, shape, ticker, period,
                   raised, page_df, full_name, summary, ticks, df, delta,
                   loss, tp>>

\* line 38
Loss ==
    /\ pc = "loss"
    /\ loss' = avg_loss(delta)
    /\ pc' = "rsi"
    /\ UNCHANGED <<history, cache, symbol, interval, listed, feed, shape, ticker, period,
                   raised, page_df, full_name, summary, ticks, df, delta,
                   gain, tp>>

\* line 39
Rsi ==
    /\ pc = "rsi"
    /\ df' = setitem(df, "RSI", rsi_formula(gain, loss))
    /\ pc' = "tp"
    /\ UNCHANGED <<history, cache, symbol, interval, listed, feed, shape, ticker, period,
                   raised, page_df, full_name, summary, ticks, delta, gain,
                   loss, tp>>

\* line 42
TypicalPrice ==
    /\ pc = "tp"
    /\ tp' = typical_price(getitem(df, "High"), getitem(df, "Low"),
                           getitem(df, "Close"))
    /\ pc' = "vwap"
    /\ UNCHANGED <<history, cache, symbol, interval, listed, feed, shape, ticker, period,
                   raised, page_df, full_name, summary, ticks, df, delta,
                   gain, loss>>

\* line 43
Vwap ==
    /\ pc = "vwap"
    /\ df' = setitem(df, "VWAP", vwap(tp, getitem(df, "Volume")))
    /\ pc' = "ema"
    /\ UNCHANGED <<history, cache, symbol, interval, listed, feed, shape, ticker, period,
                   raised, page_df, full_name, summary, ticks, delta, gain,
                   loss, tp>>

\* line 46
Ema ==
    /\ pc = "ema"
    /\ df' = setitem(df, "EMA_20", ewm_mean(getitem(df, "Close"), EMA_SPAN))
    /\ pc' = "sma"
    /\ UNCHANGED <<history, cache, symbol, interval, listed, feed, shape, ticker, period,
                   raised, page_df, full_name, summary, ticks, delta, gain,
                   loss, tp>>

\* line 47
Sma ==
    /\ pc = "sma"
    /\ df' = setitem(df, "SMA_50",
                      rolling_mean(getitem(df, "Close"), SMA_WINDOW, SMA_WINDOW))
    /\ pc' = "high52"
    /\ UNCHANGED <<history, cache, symbol, interval, listed, feed, shape, ticker, period,
                   raised, page_df, full_name, summary, ticks, delta, gain,
                   loss, tp>>

\* line 50
High52 ==
    /\ pc = "high52"
    /\ df' = setitem(df, "52W_H", rolling_max(getitem(df, "High"), W52_WINDOW, 1))
    /\ pc' = "low52"
    /\ UNCHANGED <<history, cache, symbol, interval, listed, feed, shape, ticker, period,
                   raised, page_df, full_name, summary, ticks, delta, gain,
                   loss, tp>>

\* line 51
Low52 ==
    /\ pc = "low52"
    /\ df' = setitem(df, "52W_L", rolling_min(getitem(df, "Low"), W52_WINDOW, 1))
    /\ pc' = "return"
    /\ UNCHANGED <<history, cache, symbol, interval, listed, feed, shape, ticker, period,
                   raised, page_df, full_name, summary, ticks, delta, gain,
                   loss, tp>>

\* line 53
Return ==
    /\ pc = "return"
    /\ page_df' = df
    /\ full_name' = ticker
    /\ cache' = store(cache, CacheKey, <<page_df', full_name'>>)
    /\ pc' = "page"
    /\ UNCHANGED <<history, delta, gain, loss, tp, symbol, interval, listed, feed,
                   shape, ticker, period, df, raised, summary, ticks>>

\* lines 54-55
Except ==
    /\ pc = "except"
    /\ page_df' = absent(symbol, ticker)[1]
    /\ full_name' = absent(symbol, ticker)[2]
    /\ cache' = store(cache, CacheKey, <<page_df', full_name'>>)
    /\ pc' = "page"
    /\ UNCHANGED <<history, delta, gain, loss, tp, symbol, interval, listed, feed,
                   shape, ticker, period, df, raised, summary, ticks>>

(***************************************************************************)
(* Steps of the terminal page.                                             *)
(***************************************************************************)
Returned == pc \in {"page", "cached"}

\* lines 167-186
Summary ==
    /\ Returned
    /\ page_df # None
    /\ page_df.nrows >= 2
    /\ summary' = page_summary(page_df)
    /\ pc' = "rendered"
    /\ UNCHANGED <<symbol, interval, history, cache, listed, feed, shape,
                   ticker, period, df, delta, gain, loss, tp, raised, page_df,
                   full_name, ticks>>

\* line 168: df.iloc[-2] of a one-row table is an IndexError, which nothing
\* catches
SummaryRaises ==
    /\ Returned
    /\ page_df # None
    /\ page_df.nrows < 2
    /\ summary' = NoSummary
    /\ pc' = "crashed"
    /\ UNCHANGED <<symbol, interval, history, cache, listed, feed, shape,
                   ticker, period, df, delta, gain, loss, tp, raised, page_df,
                   full_name, ticks>>

\* lines 220-221
NotFound ==
    /\ Returned
    /\ page_df = None
    /\ summary' = NotFoundError
    /\ pc' = "notfound"
    /\ UNCHANGED <<symbol, interval, history, cache, listed, feed, shape,
                   ticker, period, df, delta, gain, loss, tp, raised, page_df,
                   full_name, ticks>>

\* the script has run to its end, or stopped at the uncaught error of line
\* 168 with the sidebar already drawn, and waits for the user
Idle == pc \in {"rendered", "notfound", "crashed"}

\* st.rerun(), or the rerun a changed widget starts: the script runs again
\* from the top with the session state as it is, and nothing of the last
\* run's locals is left
rerun(to) ==
    /\ pc' = to
    /\ ticks' = ticks + 1
    /\ ticker' = <<>>
    /\ period' = ""
    /\ df' = None
    /\ delta' = Unbound
    /\ gain' = Unbound
    /\ loss' = Unbound
    /\ tp' = Unbound
    /\ raised' = FALSE
    /\ page_df' = None
    /\ full_name' = <<>>
    /\ summary' = NoSummary
    /\ UNCHANGED <<cache, listed, feed, shape>>

\* lines 149 and 152-155
UpdateAnalysis ==
    /\ Idle
    /\ ticks < MaxTicks
    /\ \E typed \in Queries :
           LET query == upper(typed)
           IN  /\ symbol' = query
               /\ history' = remember(history, query)
    /\ rerun("start")
    /\ UNCHANGED interval

\* lines 158-161
HistoryClick ==
    /\ Idle
    /\ ticks < MaxTicks
    /\ \E stock \in recent(history) : symbol' = stock
    /\ rerun("start")
    /\ UNCHANGED <<interval, history>>

\* line 149: a text is entered in the search box and Update Analysis is not
\* pressed; the script runs again and the session state is as it was
TypeQuery ==
    /\ Idle
    /\ ticks < MaxTicks
    /\ rerun("start")
    /\ UNCHANGED <<symbol, interval, history>>

\* line 150: another option of the select box is picked
SelectTimeframe ==
    /\ Idle
    /\ ticks < MaxTicks
    /\ \E timeframe \in Intervals \ {interval} : interval' = timeframe
    /\ rerun("start")
    /\ UNCHANGED <<symbol, history>>

\* lines 144-146: the welcome screen is drawn, nothing is looked up
HomeScreen ==
    /\ Idle
    /\ ticks < MaxTicks
    /\ rerun("welcome")
    /\ UNCHANGED <<symbol, interval, history>>

\* lines 136-138: back on the terminal, the select box is drawn anew and
\* shows its first option
StartTerminal ==
    /\ pc = "welcome"
    /\ interval' = DEFAULT_TIMEFRAME
    /\ pc' = "start"
    /\ UNCHANGED <<symbol, history, cache, listed, feed, shape, ticker,
                   period, df, delta, gain, loss, tp, raised, page_df,
                   full_name, summary, ticks>>

Next ==
    \/ CacheHit
    \/ Download
    \/ DownloadRaises
    \/ ReturnEmpty
    \/ NotEmpty
    \/ HeaderRepair
    \/ Delta
    \/ DeltaRaises
    \/ Gain
    \/ Loss
    \/ Rsi
    \/ TypicalPrice
    \/ Vwap
    \/ Ema
    \/ Sma
    \/ High52
    \/ Low52
    \/ Return
    \/ Except
    \/ Summary
    \/ SummaryRaises
    \/ NotFound
    \/ UpdateAnalysis
    \/ HistoryClick
    \/ TypeQuery
    \/ SelectTimeframe
    \/ HomeScreen
    \/ StartTerminal

Spec == Init /\ [][Next]_vars

\* one asset on one timeframe, looked up again as the source adds bars
NextSeries ==
    \/ CacheHit
    \/ Download
    \/ DownloadRaises
    \/ ReturnEmpty
    \/ NotEmpty
    \/ HeaderRepair
    \/ Delta
    \/ DeltaRaises
    \/ Gain
    \/ Loss
    \/ Rsi
    \/ TypicalPrice
    \/ Vwap
    \/ Ema
    \/ Sma
    \/ High52
    \/ Low52
    \/ Return
    \/ Except
    \/ Summary
    \/ SummaryRaises
    \/ NotFound
    \/ TypeQuery

SpecSeries == InitSeries /\ [][NextSeries]_vars

\* the body of the engine, from its call to its return
NextEngine ==
    \/ Download
    \/ DownloadRaises
    \/ ReturnEmpty
    \/ NotEmpty
    \/ HeaderRepair
    \/ Delta
    \/ DeltaRaises
    \/ Gain
    \/ Loss
    \/ Rsi
    \/ TypicalPrice
    \/ Vwap
    \/ Ema
    \/ Sma
    \/ High52
    \/ Low52
    \/ Return
    \/ Except

SpecEngine == InitEngine /\ [][NextEngine]_vars

(***************************************************************************)
(* Lines 42-43 alone, in binary64, on a table as downloaded.               *)
(***************************************************************************)
InitVwap ==
    /\ symbol = <<"A">>
    /\ interval = "1d"
    /\ history = DEFAULT_HISTORY
    /\ cache = NoEntries
    /\ listed = {<<"A", ".", "N", "S">>}
    /\ feed \in CentFeeds
    /\ shape = "flat"
    /\ pc = "tp64"
    /\ ticker = resolve_ticker(symbol)
    /\ period = lookback(interval)
    /\ df = download64(feed)
    /\ delta = Unbound
    /\ gain = Unbound
    /\ loss = Unbound
    /\ tp = Unbound
    /\ raised = FALSE
    /\ page_df = None
    /\ full_name = <<>>
    /\ summary = NoSummary
    /\ ticks = 0

\* line 42
TypicalPrice64 ==
    /\ pc = "tp64"
    /\ tp' = typical_price64(getitem(df, "High"), getitem(df, "Low"),
                             getitem(df, "Close"))
    /\ pc' = "vwap64"
    /\ UNCHANGED <<history, cache, symbol, interval, listed, feed, shape, ticker, period, df,
                   delta, gain, loss, raised, page_df, full_name, summary,
                   ticks>>

\* line 43
Vwap64 ==
    /\ pc = "vwap64"
    /\ df' = setitem(df, "VWAP", vwap64(tp, getitem(df, "Volume")))
    /\ pc' = "done64"
    /\ UNCHANGED <<history, cache, symbol, interval, listed, feed, shape, ticker, period,
                   delta, gain, loss, tp, raised, page_df, full_name, summary,
                   ticks>>

NextVwap ==
    \/ TypicalPrice64
    \/ Vwap64

SpecVwap == InitVwap /\ [][NextVwap]_vars

(***************************************************************************)
(* Lines 36-39 in binary64, on the downloaded table.                       *)
(***************************************************************************)
InitRsi ==
    /\ symbol = <<"A">>
    /\ interval = "1d"
    /\ history = DEFAULT_HISTORY
    /\ cache = NoEntries
    /\ listed = {<<"A", ".", "N", "S">>}
    /\ feed \in RsiFeeds
    /\ shape = "flat"
    /\ pc = "delta64"
    /\ ticker = resolve_ticker(symbol)
    /\ period = lookback(interval)
    /\ df = download_scaled(feed)
    /\ delta = Unbound
    /\ gain = Unbound
    /\ loss = Unbound
    /\ tp = Unbound
    /\ raised = FALSE
    /\ page_df = None
    /\ full_name = <<>>
    /\ summary = NoSummary
    /\ ticks = 0

\* line 36
Delta64 ==
    /\ pc = "delta64"
    /\ delta' = diff64(getitem(df, "Close"))
    /\ pc' = "gain64"
    /\ UNCHANGED <<history, cache, symbol, interval, listed, feed, shape, ticker, period, df,
                   gain, loss, tp, raised, page_df, full_name, summary, ticks>>

\* line 37
Gain64 ==
    /\ pc = "gain64"
    /\ gain' = roll_mean(gain64(delta), RSI_WINDOW, RSI_WINDOW)
    /\ pc' = "loss64"
    /\ UNCHANGED <<history, cache, symbol, interval, listed, feed, shape, ticker, period, df,
                   delta, loss, tp, raised, page_df, full_name, summary, ticks>>

\* line 38
Loss64 ==
    /\ pc = "loss64"
    /\ loss' = roll_mean(loss64(delta), RSI_WINDOW, RSI_WINDOW)
    /\ pc' = "rsi64"
    /\ UNCHANGED <<history, cache, symbol, interval, listed, feed, shape, ticker, period, df,
                   delta, gain, tp, raised, page_df, full_name, summary, ticks>>

\* line 39
Rsi64 ==
    /\ pc = "rsi64"
    /\ df' = setitem(df, "RSI", rsi64(gain, loss))
    /\ pc' = "done39"
    /\ UNCHANGED <<history, cache, symbol, interval, listed, feed, shape, ticker, period,
                   delta, gain, loss, tp, raised, page_df, full_name, summary,
                   ticks>>

NextRsi ==
    \/ Delta64
    \/ Gain64
    \/ Loss64
    \/ Rsi64

SpecRsi == InitRsi /\ [][NextRsi]_vars

(***************************************************************************)
(* Properties.                                                             *)
(***************************************************************************)
\* the spellings the claim speaks of, in priority order: the exchange-suffixed
\* form, then the raw spelling
Variants(sym) == <<upper(strip(sym)) \o NS_SUFFIX, upper(strip(sym))>>

FirstListed(sym) ==
    Variants(sym)[CHOOSE k \in 1..Len(Variants(sym)) :
                     /\ Variants(sym)[k] \in listed
                     /\ \A j \in 1..(k - 1) : Variants(sym)[j] \notin listed]

\* the one spelling the code tries: cleaned up, suffixed only when it has no dot
OnlySpelling(sym) ==
    IF \E i \in 1..Len(sym) : sym[i] = "."
    THEN upper(strip(sym))
    ELSE upper(strip(sym)) \o <<".", "N", "S">>

\* C1 as stated: whenever some spelling variant of the symbol (suffixed or
\* raw) has a non-empty upstream series and nothing raised, the result is a
\* present table and the resolved identifier is the first such variant.
C1_FirstVariantWins ==
    (pc = "page" /\ ~raised /\ \E k \in 1..2 : Variants(symbol)[k] \in listed)
        => (page_df # None /\ full_name = FirstListed(symbol))

\* C1 amended: exactly one spelling is tried (the stripped, upper-cased symbol,
\* with ".NS" appended only when it holds no dot); when nothing raised the
\* result is present exactly when that spelling has a non-empty series, and a
\* present result is paired with that spelling.
C1_SingleSpelling ==
    (pc = "page" /\ ~raised)
        => /\ (page_df # None) <=> (OnlySpelling(symbol) \in listed)
           /\ page_df # None => full_name = OnlySpelling(symbol)

\* the raw spelling has a series, the suffixed one has none, and the result is absent
C1_Witness ==
    /\ pc = "page"
    /\ ~raised
    /\ page_df = None
    /\ upper(strip(symbol)) \in listed
    /\ OnlySpelling(symbol) \notin listed

\* C2: when the upstream result is empty or an exception occurred, the engine
\* returns (None, symbol) with the symbol exactly as passed in; a present table
\* is returned only with the resolved ticker, and only when nothing raised.
C2_AbsentKeepsSymbol ==
    pc = "page"
        => /\ (raised \/ ticker \notin listed) => (page_df = None /\ full_name = symbol)
           /\ page_df = None => full_name = symbol
           /\ page_df # None => (full_name = ticker /\ ~raised /\ ticker \in listed)

\* an exception was caught, and the symbol returned differs from its cleaned-up
\* and suffixed forms
C2_Witness ==
    /\ pc = "page"
    /\ raised
    /\ page_df = None
    /\ full_name = symbol
    /\ symbol # ticker
    /\ symbol # upper(strip(symbol))

\* C9: the header is repaired before the indicator step reads a column: at that
\* step the header is flat and holds the outer field names; the repair is a
\* no-op on a flat header and applying it twice equals applying it once.
C9_HeaderRepair ==
    /\ pc = "repair"
          => /\ header_repair(header_repair(df)) = header_repair(df)
             /\ ~IsMultiIndex(df.columns) => header_repair(df) = df
             /\ IsMultiIndex(df.columns) =>
                    /\ ~IsMultiIndex(header_repair(df).columns)
                    /\ header_repair(df).columns.values =
                           [k \in 1..Len(df.columns.values) |-> df.columns.values[k][1]]
                    /\ header_repair(df).data = df.data
    /\ pc = "indicators"
          => /\ df.columns.nlevels = 1
             /\ df.columns.values = (IF shape = "malformed" THEN BAD_FIELDS ELSE FIELDS)
             /\ header_repair(df) = df

\* the indicator step is about to run on a table that arrived with a nested header
C9_Witness ==
    /\ pc = "indicators"
    /\ shape = "nested"
    /\ df.columns = Index(FIELDS)

\* C10 as stated: a present table has at least two rows, so the page's read of
\* the second-to-last row cannot fail.
C10_TwoRows ==
    /\ pc # "crashed"
    /\ page_df # None => page_df.nrows >= 2

(***************************************************************************)
(* Reference values, computed from the integer bars of the feed.           *)
(***************************************************************************)
RowCount == page_df.nrows
Computed == pc = "page" /\ page_df # None

\* 1-based row r is the row of index r - 1
FirstFullRow == W52_WINDOW + 1

CloseDelta(j) == IF j = 1 THEN 0 ELSE feed[j].Close - feed[j - 1].Close

RECURSIVE GainSum(_, _)
GainSum(lo, hi) ==
    IF lo > hi THEN 0 ELSE Max2(CloseDelta(hi), 0) + GainSum(lo, hi - 1)

RECURSIVE LossSum(_, _)
LossSum(lo, hi) ==
    IF lo > hi THEN 0 ELSE Max2(-CloseDelta(hi), 0) + LossSum(lo, hi - 1)

\* sums over the trailing 14 bars that end at row i
TrailingGain(i) == GainSum(i - RSI_WINDOW + 1, i)
TrailingLoss(i) == LossSum(i - RSI_WINDOW + 1, i)

CumVolume ==
    LET step(acc, j) ==
            Append(acc, (IF acc = <<>> THEN 0 ELSE acc[Len(acc)]) + feed[j].Volume)
    IN  Fold(step, <<>>, 1, Len(feed))

DerivedColumns == {"RSI", "VWAP", "EMA_20", "SMA_50", "52W_H", "52W_L"}

\* C3: no look-ahead.  When the engine computes a table again for arguments
\* it has an older result for, after the source has added bars, every derived
\* value on the rows the older table had is the same in the new table: rows
\* 0..i do not depend on what follows row i.
C3_NoLookAhead ==
    (pc = "return" /\ CacheKey \in DOMAIN cache /\ cache[CacheKey][1] # None)
        => LET older == cache[CacheKey][1]
           IN  /\ older.nrows <= df.nrows
               /\ \A name \in DerivedColumns :
                      \A i \in 1..older.nrows :
                          getitem(df, name)[i] = getitem(older, name)[i]

\* a second run is about to return a table one bar longer than the table of
\* the first run, long enough for every window to be full
C3_Witness ==
    /\ pc = "return"
    /\ CacheKey \in DOMAIN cache
    /\ cache[CacheKey][1] # None
    /\ cache[CacheKey][1].nrows + 1 = df.nrows
    /\ df.nrows = Len(feed)
    /\ df.nrows > FirstFullRow
    /\ feed[Len(feed)].Close # feed[Len(feed) - 1].Close

\* C4 as stated: with at least 252 bars and no missing input, all six
\* indicator columns are defined at every row of index >= 252.
C4_AllDefined ==
    (Computed /\ RowCount >= W52_WINDOW)
        => \A name \in DerivedColumns :
               \A i \in FirstFullRow..RowCount : notna(getitem(page_df, name)[i])

\* C4 amended: at every row of index >= 252, EMA_20, SMA_50, 52W_H and 52W_L
\* are defined; RSI is defined exactly when the trailing 14 close-to-close
\* deltas are not all zero; VWAP is defined exactly when the cumulative
\* volume up to that row is positive.
C4_DefinedUnlessZeroOverZero ==
    (Computed /\ RowCount >= W52_WINDOW)
        => LET rsi == getitem(page_df, "RSI")
               vw == getitem(page_df, "VWAP")
               cv == CumVolume
           IN  \A i \in FirstFullRow..RowCount :
                   /\ \A name \in {"EMA_20", "SMA_50", "52W_H", "52W_L"} :
                          notna(getitem(page_df, name)[i])
                   /\ notna(rsi[i]) <=> (TrailingGain(i) > 0 \/ TrailingLoss(i) > 0)
                   /\ notna(vw[i]) <=> (cv[i] > 0)

\* a table whose last row has index >= 252 and all six indicators defined
C4_Witness ==
    /\ Computed
    /\ RowCount >= FirstFullRow
    /\ \A name \in DerivedColumns : notna(getitem(page_df, name)[RowCount])

\* the table of SpecRsi once line 39 has run, with its RSI column
Rsi64Done == pc = "done39"
Rsi64Column == getitem(df, "RSI")

\* x * 2^k
Scale64(x, k) == IF x.cls = "num" THEN Num64(x.m, x.e + k) ELSE x

\* the average loss of row i is zero (0.0 or -0.0), its average gain positive
NoLossSomeGain(i) == iszero(loss[i]) /\ LtS64(PlusZero64, gain[i])

\* the average gain of row i is at least 2^k times its positive average loss
GainDwarfsLoss(i, k) ==
    /\ LtS64(PlusZero64, loss[i])
    /\ Le64(Scale64(loss[i].abs, k), gain[i].abs)

\* the per-bar gains and losses of the rows max(1, i - 13)..i, as the
\* positive and negative parts of the close-to-close delta
WindowRows(i) == Max2(1, i - RSI_WINDOW + 1)..i
RowFalls(j) == j > 1 /\ LtS64(getitem(df, "Close")[j], getitem(df, "Close")[j - 1])
RowRises(j) == j > 1 /\ LtS64(getitem(df, "Close")[j - 1], getitem(df, "Close")[j])

\* C5 as stated: RSI is undefined on the first 13 bars; where defined it lies
\* in [0, 100]; at a row with 14 bars behind it, it is 100 exactly when the
\* trailing average loss is zero and the trailing average gain is positive.
C5_Exactly100 ==
    Rsi64Done
        => \A i \in 1..df.nrows :
               /\ i < RSI_WINDOW => isnan(Rsi64Column[i])
               /\ ~isnan(Rsi64Column[i]) =>
                      /\ ~LtS64(Rsi64Column[i], PlusZero64)
                      /\ ~LtS64(Hundred64, Rsi64Column[i])
               /\ i >= RSI_WINDOW =>
                      (EqS64(Rsi64Column[i], Hundred64) <=> NoLossSomeGain(i))

\* C5 amended: RSI is undefined on the first 13 bars; where defined it lies
\* in [0, 100]; the average loss of a row is zero exactly when no close of
\* its 14 rows is below the close before it, and its average gain positive
\* exactly when some close is above the close before it; RSI is 100 when the
\* average loss is zero and the average gain positive, and when the average
\* gain is at least 2^54 times a positive average loss, and in no other case:
\* a row of RSI 100 with a positive average loss has an average gain of at
\* least 2^53 times that loss.
C5_SaturatesAt100 ==
    Rsi64Done
        => \A i \in 1..df.nrows :
               /\ i < RSI_WINDOW => isnan(Rsi64Column[i])
               /\ ~isnan(Rsi64Column[i]) =>
                      /\ ~LtS64(Rsi64Column[i], PlusZero64)
                      /\ ~LtS64(Hundred64, Rsi64Column[i])
               /\ i >= RSI_WINDOW =>
                      /\ iszero(loss[i]) <=> ~\E j \in WindowRows(i) : RowFalls(j)
                      /\ LtS64(PlusZero64, gain[i])
                             <=> \E j \in WindowRows(i) : RowRises(j)
                      /\ NoLossSomeGain(i) => EqS64(Rsi64Column[i], Hundred64)
                      /\ GainDwarfsLoss(i, MANT_BITS + 1)
                             => EqS64(Rsi64Column[i], Hundred64)
                      /\ EqS64(Rsi64Column[i], Hundred64)
                             => \/ NoLossSomeGain(i)
                                \/ GainDwarfsLoss(i, MANT_BITS)

\* one table with a row of RSI 100 whose average loss is positive and a row
\* of RSI 100 whose average loss is zero
C5_Witness ==
    /\ Rsi64Done
    /\ \E i \in 1..df.nrows :
           EqS64(Rsi64Column[i], Hundred64) /\ LtS64(PlusZero64, loss[i])
    /\ \E i \in 1..df.nrows :
           EqS64(Rsi64Column[i], Hundred64) /\ NoLossSomeGain(i)

\* C6: at every row the 52-week high is the largest high, and the 52-week low
\* the smallest low, of the rows max(1, i - 251)..i; both are defined from the
\* first row, where they are that row's own high and low.
C6_RollingExtrema ==
    Computed
        => LET hh == getitem(page_df, "52W_H")
               ll == getitem(page_df, "52W_L")
           IN  /\ hh[1] = <<feed[1].High, 1>>
               /\ ll[1] = <<feed[1].Low, 1>>
               /\ \A i \in 1..RowCount :
                      LET win == Max2(1, i - (W52_WINDOW - 1))..i
                      IN  /\ hh[i][2] = 1
                          /\ ll[i][2] = 1
                          /\ \E j \in win : feed[j].High = hh[i][1]
                          /\ \A j \in win : feed[j].High <= hh[i][1]
                          /\ \E j \in win : feed[j].Low = ll[i][1]
                          /\ \A j \in win : feed[j].Low >= ll[i][1]

\* the highest high and the lowest low of the series are more than 252 bars
\* old, and the last row no longer reports them
C6_Witness ==
    /\ Computed
    /\ RowCount > W52_WINDOW
    /\ \E j \in 1..(RowCount - W52_WINDOW) :
           \/ Lt(getitem(page_df, "52W_H")[RowCount], <<feed[j].High, 1>>)
           \/ Gt(getitem(page_df, "52W_L")[RowCount], <<feed[j].Low, 1>>)

(***************************************************************************)
(* Exact values for lines 42-43: a dyadic number <<m, e>> is m * 2^e.      *)
(***************************************************************************)
Exact(x) == <<x.m, x.e>>

DyAdd(a, b) ==
    IF a[1] = <<>> THEN b
    ELSE IF b[1] = <<>> THEN a
    ELSE LET lo == Min2(a[2], b[2])
         IN  <<BigAdd(Shl(a[1], a[2] - lo), Shl(b[1], b[2] - lo)), lo>>

DyMulSmall(a, k) == <<BigMulSmall(a[1], k), a[2]>>

\* | x * den - num | <= k * 2^(-MANT_BITS) * num, for a finite double x
WithinUlps(x, num, den, k) ==
    LET a == DyMulSmall(Exact(x), den)
        lo == Min2(a[2], num[2])
        am == Shl(a[1], a[2] - lo)
        bm == Shl(num[1], num[2] - lo)
        d == IF BigLe(am, bm) THEN BigSub(bm, am) ELSE BigSub(am, bm)
    IN  BigLe(Shl(d, MANT_BITS), BigMulSmall(bm, k))

Done64 == pc = "done64"

\* the sum over rows 1..i of (high + low + close) * volume, exactly
RECURSIVE Exact3TPV(_)
Exact3TPV(i) ==
    IF i = 0 THEN <<<<>>, 0>>
    ELSE DyAdd(Exact3TPV(i - 1),
               DyMulSmall(DyAdd(DyAdd(Exact(getitem(df, "High")[i]),
                                      Exact(getitem(df, "Low")[i])),
                                Exact(getitem(df, "Close")[i])),
                          feed[i].Volume))

RECURSIVE CumVolume64(_)
CumVolume64(i) == IF i = 0 THEN 0 ELSE CumVolume64(i - 1) + feed[i].Volume

ConstantTypicalPrice ==
    \A j \in 1..df.nrows : tp[j] = tp[1] /\ feed[j].Volume > 0

\* what C7 says of every row: NaN while the cumulative volume is zero, and
\* from then on the quotient of the two running sums, taken from the first
\* row, to within the rounding of the i + 4 operations behind it
VwapIsRunningQuotient ==
    \A i \in 1..df.nrows :
        LET v == getitem(df, "VWAP")[i]
        IN  IF CumVolume64(i) = 0 THEN v.cls = "nan"
            ELSE /\ v.cls = "num"
                 /\ WithinUlps(v, Exact3TPV(i), 3 * CumVolume64(i), i + 5)

MomentumClasses == {"OVERBOUGHT", "OVERSOLD", "NEUTRAL"}

\* C8 as stated: when the last row's RSI or VWAP is the non-numeric marker the
\* summary neither formats it nor assigns a momentum class; otherwise the
\* class is oversold below 30, overbought above 70, else neutral.
C8_SummaryChecksMarker ==
    pc = "rendered"
        => LET last == Row(page_df, page_df.nrows)
               rsi == last64(page_df).RSI
           IN  /\ IsNaN(last["RSI"]) =>
                      /\ summary.rsi_text \notin MomentumClasses
                      /\ summary.rsi # format_1f(NaN64)
               /\ IsNaN(last["VWAP"]) => summary.vwap # format_1f(NaN64)
               /\ notna(last["RSI"]) =>
                      summary.rsi_text =
                          (IF Lt64(rsi, FromInt64(RSI_OVERSOLD)) THEN "OVERSOLD"
                           ELSE IF Lt64(FromInt64(RSI_OVERBOUGHT), rsi)
                           THEN "OVERBOUGHT"
                           ELSE "NEUTRAL")

====
